---- MODULE Spec2Model ----
(***************************************************************************)
(* Model of get_invoice_items (src/invoicer.py), the weekly billing        *)
(* scheduler: one call of the function, stepped through its two nested     *)
(* loops.  A datetime is modelled by its proleptic Gregorian ordinal       *)
(* (0001-01-01 is ordinal 1), which is how the datetime type itself does   *)
(* timedelta arithmetic; the time of day is always 00:00 here.             *)
(***************************************************************************)
EXTENDS Integers, Sequences, FiniteSets, TLC

(* ---------------- bounds of the model ---------------- *)
FirstYear == 2000
NumYears == 28
MaxRate == 1

\* completed calls kept in the caller's log when the function is called again
MaxCalls == 2

(* ---------------- constants of the program ---------------- *)
MINYEAR == 1
MAXYEAR == 9999
HoursPerDay == 8
AdvanceDays == 3
SATURDAY == 5
SUNDAY == 6

(* ---------------- the datetime type ---------------- *)
DAYS_IN_MONTH == <<31, 28, 31, 30, 31, 30, 31, 31, 30, 31, 30, 31>>
DAYS_BEFORE_MONTH == <<0, 31, 59, 90, 120, 151, 181, 212, 243, 273, 304, 334>>

is_leap(y) == y % 4 = 0 /\ (y % 100 # 0 \/ y % 400 = 0)

days_in_month(y, m) == IF m = 2 /\ is_leap(y) THEN 29 ELSE DAYS_IN_MONTH[m]

days_before_year(y) ==
    (y - 1) * 365 + ((y - 1) \div 4) - ((y - 1) \div 100) + ((y - 1) \div 400)

days_before_month(y, m) ==
    DAYS_BEFORE_MONTH[m] + (IF m > 2 /\ is_leap(y) THEN 1 ELSE 0)

\* datetime(year, month, day) succeeds exactly for these arguments
ValidDate(y, m, d) ==
    /\ MINYEAR <= y /\ y <= MAXYEAR
    /\ 1 <= m /\ m <= 12
    /\ 1 <= d /\ d <= days_in_month(y, m)

ymd2ord(y, m, d) == days_before_year(y) + days_before_month(y, m) + d

MAXORDINAL == ymd2ord(MAXYEAR, 12, 31)

\* ordinal -> <<year, month, day>>
ord2ymd(ord) ==
    LET n0   == ord - 1
        n400 == n0 \div 146097
        r400 == n0 % 146097
        n100 == r400 \div 36524
        r100 == r400 % 36524
        n4   == r100 \div 1461
        r4   == r100 % 1461
        n1   == r4 \div 365
        n    == r4 % 365
        y    == n400 * 400 + 1 + n100 * 100 + n4 * 4 + n1
    IN  IF n1 = 4 \/ n100 = 4
        THEN <<y - 1, 12, 31>>
        ELSE LET leap == n1 = 3 /\ (n4 # 24 \/ n100 = 3)
                 lp(m) == IF m > 2 /\ leap THEN 1 ELSE 0
                 m0 == (n + 50) \div 32
                 p0 == DAYS_BEFORE_MONTH[m0] + lp(m0)
                 m  == IF p0 > n THEN m0 - 1 ELSE m0
                 p  == IF p0 > n
                       THEN p0 - (DAYS_IN_MONTH[m] + (IF m = 2 /\ leap THEN 1 ELSE 0))
                       ELSE p0
             IN  <<y, m, n - p + 1>>

YearOf(d) == ord2ymd(d)[1]
MonthOf(d) == ord2ymd(d)[2]
DayOf(d) == ord2ymd(d)[3]

\* datetime.weekday(): Monday = 0 ... Sunday = 6
weekday(d) == (d + 6) % 7

\* datetime +/- timedelta raises OverflowError outside 1..MAXORDINAL
InRange(o) == 0 < o /\ o <= MAXORDINAL

(* ---------------- strftime('%m-%d-%Y') ---------------- *)
Pad2(n) == IF n < 10 THEN "0" \o ToString(n) ELSE ToString(n)

\* variant: day and month swapped ('%d-%m-%Y')
strftime_DMY(d) == Pad2(DayOf(d)) \o "-" \o Pad2(MonthOf(d)) \o "-" \o ToString(YearOf(d))

strftime(d) == Pad2(MonthOf(d)) \o "-" \o Pad2(DayOf(d)) \o "-" \o ToString(YearOf(d))

create_week_description(start_date, end_date) ==
    strftime(start_date) \o " - " \o strftime(end_date)

(* ---------------- inputs ---------------- *)
Years == (FirstYear .. (FirstYear + NumYears - 1))
            \cup {1000, MAXYEAR, MINYEAR - 1, MAXYEAR + 1}
Months == 0 .. 13
Rates == ((0 - MaxRate) .. MaxRate) \cup {50}
Names == {"Engineering", "Consulting"}

(* ---------------- the scheduler ---------------- *)
VARIABLES year, month, rate_per_hour, name,
          pc, current_date, week_end_date, days_in_week,
          schedule_list, week_spans, result, err

\* iterations of the outer loop and of the inner loop in the current call
VARIABLES outer_iters, inner_steps

counters == <<outer_iters, inner_steps>>

\* the caller's side: completed calls of get_invoice_items
VARIABLES calls

\* main(): the command line, the session cache file and the login
VARIABLES cookie, force_login, skip_validate, client_name, item_name,
          cache_file, email, cached, session_for_use, cache_used, token_info

\* main(): position in the run, exit status, and the requests and cache
\* file operations performed so far
VARIABLES mpc, exit_code, trace

\* SkydoAPI: the instance's fields and what it has posted
VARIABLES invoice_id, clients, invoice_items, skydo_bank_accounts,
          chosen_item, items_sent, bank_sent

args == <<cookie, force_login, skip_validate, client_name, item_name>>

login == <<cache_file, email, cached, session_for_use, cache_used, token_info>>

api == <<invoice_id, clients, invoice_items, skydo_bank_accounts, chosen_item,
         items_sent, bank_sent>>

env == <<calls, args, login, mpc, exit_code, trace, api>>

\* is_token_expired: the safety window in seconds
SafetyWindow == 60

\* an expiryDate: missing, not ISO-8601, or a time given in seconds from now
NoExpiry == [kind |-> "absent", at |-> 0]
BadExpiry == [kind |-> "unparseable", at |-> 0]
TimeExpiry(t) == [kind |-> "time", at |-> t]
ExpiryValues == {NoExpiry, BadExpiry, TimeExpiry(SafetyWindow),
                 TimeExpiry(SafetyWindow + 1)}

\* what load_cached_token can find: no readable file (None), a file without
\* a token, a file with a token
NoCache == [token |-> "", expiry |-> NoExpiry, file |-> FALSE]
CacheFiles == {NoCache, [token |-> "", expiry |-> NoExpiry, file |-> TRUE]}
                 \cup {[token |-> "tok-cached", expiry |-> e, file |-> TRUE] :
                           e \in ExpiryValues}

NoItem == [name |-> "", rate |-> 0, currency |-> ""]

vars == <<year, month, rate_per_hour, name, pc, current_date, week_end_date,
          days_in_week, schedule_list, week_spans, result, err, counters,
          env>>

inputs == <<year, month, rate_per_hour, name>>

\* a direct call of get_invoice_items, with nothing around it
EnvIdle ==
    /\ calls = <<>>
    /\ cookie = FALSE
    /\ force_login = FALSE
    /\ skip_validate = FALSE
    /\ client_name = ""
    /\ item_name = ""
    /\ cache_file = NoCache
    /\ email = ""
    /\ cached = NoCache
    /\ session_for_use = "none"
    /\ cache_used = FALSE
    /\ token_info = ""
    /\ mpc = "direct"
    /\ exit_code = -1
    /\ trace = <<>>
    /\ invoice_id = 0
    /\ clients = <<>>
    /\ invoice_items = <<>>
    /\ skydo_bank_accounts = <<>>
    /\ chosen_item = NoItem
    /\ items_sent = <<>>
    /\ bank_sent = <<>>

\* variant: a Saturday start is advanced by one day only
get_first_weekday_SatPlus1(y, m) ==
    LET first_day == ymd2ord(y, m, 1)
    IN  IF weekday(first_day) = SATURDAY THEN first_day + 1
        ELSE IF weekday(first_day) = SUNDAY THEN first_day + 1
        ELSE first_day

\* variant: the Sunday branch is missing
get_first_weekday_NoSunday(y, m) ==
    LET first_day == ymd2ord(y, m, 1)
    IN  IF weekday(first_day) = SATURDAY THEN first_day + 2
        ELSE first_day

get_first_weekday(y, m) ==
    LET first_day == ymd2ord(y, m, 1)
    IN  IF weekday(first_day) = SATURDAY THEN first_day + 2
        ELSE IF weekday(first_day) = SUNDAY THEN first_day + 1
        ELSE first_day

\* variant: Saturday counted as a working day
InnerCond_Sat(d, m) == weekday(d) < 6 /\ MonthOf(d) = m

\* variant: the month test is missing from the day walk
InnerCond_NoMonth(d, m) == weekday(d) < 5

\* condition of the inner while loop
InnerCond(d, m) == weekday(d) < 5 /\ MonthOf(d) = m

\* condition of the outer while loop
OuterCond(d, m) == MonthOf(d) = m

Quantity(n) == HoursPerDay * n

\* variant: rate added instead of multiplied
Total_Add(q, r) == q + r

Total(q, r) == q * r

\* variant: the cursor is not advanced past the block
NextCursor_Stay(end_date) == end_date

\* variant: the cursor is advanced to the Sunday after the block
NextCursor_Plus2(end_date) == end_date + AdvanceDays - 1

\* variant: the cursor is advanced one day too far
NextCursor_Plus4(end_date) == end_date + AdvanceDays + 1

NextCursor(end_date) == end_date + AdvanceDays

\* variant: the list outlives the call (a shared, never re-created list)
FreshList_Keep(old) == old

\* schedule_list = [] at the entry of generate_weekly_schedule
FreshList(old) == <<>>

schedule_dict(start_date, end_date, n, r, nm) ==
    [quantity       |-> Quantity(n),
     igstApplicable |-> TRUE,
     description    |-> create_week_description(start_date, end_date),
     sac            |-> "None",
     rate           |-> r,
     igst           |-> "None",
     cgst           |-> "None",
     sgst           |-> "None",
     name           |-> nm,
     unit           |-> "HOUR",
     total          |-> Total(Quantity(n), r)]

Init ==
    /\ year \in Years
    /\ month \in Months
    /\ rate_per_hour \in Rates
    /\ name \in Names
    /\ pc = "first_weekday"
    /\ current_date = 0
    /\ week_end_date = 0
    /\ days_in_week = 0
    /\ schedule_list = <<>>
    /\ week_spans = <<>>
    /\ result = <<>>
    /\ err = "none"
    /\ outer_iters = 0
    /\ inner_steps = 0
    /\ EnvIdle

\* schedule_list = []; first_weekday = get_first_weekday(year, month)
GetFirstWeekday ==
    /\ pc = "first_weekday"
    /\ IF ValidDate(year, month, 1)
       THEN /\ current_date' = get_first_weekday(year, month)
            /\ pc' = "outer"
            /\ err' = err
       ELSE /\ current_date' = current_date
            /\ pc' = "raised"
            /\ err' = "ValueError"
    /\ schedule_list' = FreshList(schedule_list)
    /\ week_spans' = <<>>
    /\ outer_iters' = 0
    /\ inner_steps' = 0
    /\ UNCHANGED <<inputs, week_end_date, days_in_week, result, env>>

\* while current_date.month == month: days_in_week = 0; week_end_date = current_date
EnterWeek ==
    /\ pc = "outer"
    /\ OuterCond(current_date, month)
    /\ days_in_week' = 0
    /\ week_end_date' = current_date
    /\ pc' = "inner"
    /\ outer_iters' = outer_iters + 1
    /\ UNCHANGED <<inputs, current_date, schedule_list, week_spans, result, err,
                   inner_steps, env>>

\* one iteration of the inner while loop
WalkDay ==
    /\ pc = "inner"
    /\ InnerCond(week_end_date, month)
    /\ days_in_week' = days_in_week + 1
    /\ IF InRange(week_end_date + 1)
       THEN /\ week_end_date' = week_end_date + 1
            /\ pc' = "inner"
            /\ err' = err
       ELSE /\ week_end_date' = week_end_date
            /\ pc' = "raised"
            /\ err' = "OverflowError"
    /\ inner_steps' = inner_steps + 1
    /\ UNCHANGED <<inputs, current_date, schedule_list, week_spans, result,
                   outer_iters, env>>

\* exit of the inner loop down to the end of the outer loop's body
EmitWeek ==
    /\ pc = "inner"
    /\ ~InnerCond(week_end_date, month)
    /\ IF ~InRange(week_end_date - 1)
       THEN /\ pc' = "raised"
            /\ err' = "OverflowError"
            /\ UNCHANGED <<week_end_date, schedule_list, week_spans, current_date>>
       ELSE LET end_date == week_end_date - 1
            IN  /\ week_end_date' = end_date
                /\ schedule_list' = Append(schedule_list,
                       schedule_dict(current_date, end_date, days_in_week,
                                     rate_per_hour, name))
                /\ week_spans' = Append(week_spans, <<current_date, end_date>>)
                /\ IF InRange(NextCursor(end_date))
                   THEN /\ current_date' = NextCursor(end_date)
                        /\ pc' = "outer"
                        /\ err' = err
                   ELSE /\ current_date' = current_date
                        /\ pc' = "raised"
                        /\ err' = "OverflowError"
    /\ UNCHANGED <<inputs, days_in_week, result, counters, env>>

\* exit of the outer loop; return [schedule for schedule in weekly_schedule]
Return ==
    /\ pc = "outer"
    /\ ~OuterCond(current_date, month)
    /\ result' = schedule_list
    /\ pc' = "done"
    /\ UNCHANGED <<inputs, current_date, week_end_date, days_in_week,
                   schedule_list, week_spans, err, counters, env>>

Next == GetFirstWeekday \/ EnterWeek \/ WalkDay \/ EmitWeek \/ Return

Spec == Init /\ [][Next]_vars

(* ---------------- the function called again and again ---------------- *)
CallInputs == {2024, MAXYEAR} \X {4, 12, 13} \X {50} \X {"Engineering"}

Outcome == <<pc, err, result>>

CallsInit ==
    /\ \E t \in CallInputs :
          year = t[1] /\ month = t[2] /\ rate_per_hour = t[3] /\ name = t[4]
    /\ pc = "first_weekday"
    /\ current_date = 0
    /\ week_end_date = 0
    /\ days_in_week = 0
    /\ schedule_list = <<>>
    /\ week_spans = <<>>
    /\ result = <<>>
    /\ err = "none"
    /\ outer_iters = 0
    /\ inner_steps = 0
    /\ EnvIdle

\* the caller notes the outcome and calls get_invoice_items again; what the
\* previous call left in its locals is still there, since nothing but the
\* function's own assignments clears it
Call ==
    /\ pc \in {"done", "raised"}
    /\ Len(calls) < MaxCalls
    /\ calls' = Append(calls, [args |-> inputs, outcome |-> Outcome])
    /\ \E t \in CallInputs :
          year' = t[1] /\ month' = t[2] /\ rate_per_hour' = t[3] /\ name' = t[4]
    /\ pc' = "first_weekday"
    /\ result' = <<>>
    /\ err' = "none"
    /\ UNCHANGED <<current_date, week_end_date, days_in_week, schedule_list,
                   week_spans, counters, args, login, mpc, exit_code, trace,
                   api>>

CallsNext == GetFirstWeekday \/ EnterWeek \/ WalkDay \/ EmitWeek \/ Return \/ Call

CallsSpec == CallsInit /\ [][CallsNext]_vars

\* the interpreter keeps executing the call: a step that can be taken is taken
FairSpec == Init /\ [][Next]_vars /\ WF_vars(Next)

(* ---------------- main(): session from cookie, cache or OTP login ------- *)
Ev(call, ok, resp) == [call |-> call, ok |-> ok, resp |-> resp]

HttpCalls == {"validate_session", "request_otp", "verify_otp_login",
              "complete_login", "create_invoice", "get_invoice_details",
              "update_bill_to", "update_items", "update_bankaccount",
              "update_other_details"}

\* variant: the safety window is not applied at its boundary
is_token_expired_Strict(e) == e.kind = "time" /\ e.at < SafetyWindow

\* dt <= now + 60 s; no expiry, or one that does not parse, is "not expired"
is_token_expired(e) == e.kind = "time" /\ e.at <= SafetyWindow

\* cached and cached.get("token")
HasToken(c) == c.file /\ c.token # ""

\* variant: an expired token is accepted when the validator says valid
UseCached_Or(expired, valid) == ~expired \/ valid

\* if not expired and valid
UseCached(expired, valid) == ~expired /\ valid

MainPeriods == {<<2024, 4>>, <<2024, 13>>}

SchedulerIdle ==
    /\ rate_per_hour = 0
    /\ name = ""
    /\ pc = "idle"
    /\ current_date = 0
    /\ week_end_date = 0
    /\ days_in_week = 0
    /\ schedule_list = <<>>
    /\ week_spans = <<>>
    /\ result = <<>>
    /\ err = "none"
    /\ outer_iters = 0
    /\ inner_steps = 0
    /\ calls = <<>>

ApiIdle ==
    /\ invoice_id = 0
    /\ clients = <<>>
    /\ invoice_items = <<>>
    /\ skydo_bank_accounts = <<>>
    /\ chosen_item = NoItem
    /\ items_sent = <<>>
    /\ bank_sent = <<>>

MainInit ==
    /\ cookie \in BOOLEAN
    /\ force_login \in BOOLEAN
    /\ skip_validate \in BOOLEAN
    /\ client_name = "Acme Corp"
    /\ item_name = "Engineering"
    /\ \E p \in MainPeriods : year = p[1] /\ month = p[2]
    /\ cache_file \in CacheFiles
    /\ email = ""
    /\ cached = NoCache
    /\ session_for_use = "none"
    /\ cache_used = FALSE
    /\ token_info = ""
    /\ mpc = "main"
    /\ exit_code = -1
    /\ trace = <<>>
    /\ SchedulerIdle
    /\ ApiIdle

sched == <<year, month, rate_per_hour, name, pc, current_date, week_end_date,
           days_in_week, schedule_list, week_spans, result, err, counters,
           calls>>

\* raise SystemExit(code), or an exception nobody catches (status 1)
Exit(code) == mpc' = "exit" /\ exit_code' = code

\* the cache branch of main, up to the session validation request
LoadCache ==
    /\ mpc = "main"
    /\ IF ~cookie /\ ~force_login
       THEN /\ cached' = cache_file
            /\ trace' = Append(trace, Ev("load_cached_token", TRUE, ""))
            /\ IF HasToken(cache_file)
               THEN IF skip_validate
                    THEN LET use == UseCached(is_token_expired(cache_file.expiry), TRUE)
                         IN  /\ session_for_use' = IF use THEN "cached" ELSE "none"
                             /\ cache_used' = use
                             /\ mpc' = "login_gate"
                    ELSE /\ mpc' = "validate_cached"
                         /\ UNCHANGED <<session_for_use, cache_used>>
               ELSE /\ mpc' = "login_gate"
                    /\ UNCHANGED <<session_for_use, cache_used>>
       ELSE /\ mpc' = "login_gate"
            /\ UNCHANGED <<cached, trace, session_for_use, cache_used>>
    /\ UNCHANGED <<args, cache_file, email, token_info, exit_code, api, sched>>

\* auth.validate_session() for the cached token, and the decision after it
ValidateCached ==
    /\ mpc = "validate_cached"
    /\ \E r \in {"valid", "invalid", "fail"} :
          LET use == UseCached(is_token_expired(cached.expiry), r = "valid")
          IN  /\ trace' = Append(trace, Ev("validate_session", r # "fail", r))
              /\ session_for_use' = IF use THEN "cached" ELSE "none"
              /\ cache_used' = use
    /\ mpc' = "login_gate"
    /\ UNCHANGED <<args, cache_file, email, cached, token_info, exit_code, api,
                   sched>>

Emails == {"user@example.com"}

\* fresh login wanted?  then the email, from --email or typed in
LoginGate ==
    /\ mpc = "login_gate"
    /\ IF ~cookie /\ session_for_use = "none"
       THEN \E e \in Emails \cup {""} :
               /\ email' = e
               /\ IF e = ""
                  THEN Exit(2)
                  ELSE mpc' = "request_otp" /\ exit_code' = exit_code
       ELSE /\ mpc' = "create_invoice"
            /\ UNCHANGED <<email, exit_code>>
    /\ UNCHANGED <<args, cache_file, cached, session_for_use, cache_used,
                   token_info, trace, api, sched>>

\* variant: the token is not looked at
MissingToken_Never(r) == FALSE

\* if not token
MissingToken(r) == r = "notoken"

RequestOtp ==
    /\ mpc = "request_otp"
    /\ \E r \in {"ok", "nodata", "fail"} :
          /\ trace' = Append(trace, Ev("request_otp", r # "fail", r))
          /\ IF r = "fail" THEN Exit(1)
             ELSE IF r = "nodata" THEN Exit(2)
             ELSE mpc' = "verify_otp" /\ exit_code' = exit_code
    /\ UNCHANGED <<args, login, api, sched>>

VerifyOtp ==
    /\ mpc = "verify_otp"
    /\ \E r \in {"ok", "notoken", "fail"} :
          /\ trace' = Append(trace, Ev("verify_otp_login", r # "fail", r))
          /\ IF r = "fail" THEN Exit(1) /\ token_info' = token_info
             ELSE IF MissingToken(r) THEN Exit(2) /\ token_info' = token_info
             ELSE /\ mpc' = "complete_login"
                  /\ exit_code' = exit_code
                  /\ token_info' = IF r = "ok" THEN "tok-new" ELSE ""
    /\ UNCHANGED <<args, cache_file, email, cached, session_for_use, cache_used,
                   api, sched>>

CompleteLogin ==
    /\ mpc = "complete_login"
    /\ \E r \in {"ok", "fail"} :
          /\ trace' = Append(trace, Ev("complete_login", r = "ok", r))
          /\ IF r = "fail" THEN Exit(1)
             ELSE /\ mpc' = IF skip_validate THEN "save_token" ELSE "validate_fresh"
                  /\ exit_code' = exit_code
    /\ UNCHANGED <<args, login, api, sched>>

\* the validation after a fresh login: logged, never fatal
ValidateFresh ==
    /\ mpc = "validate_fresh"
    /\ \E r \in {"valid", "invalid", "fail"} :
          trace' = Append(trace, Ev("validate_session", r # "fail", r))
    /\ mpc' = "save_token"
    /\ UNCHANGED <<args, login, exit_code, api, sched>>

\* save_cached_token: the file is replaced, or the failure is logged
SaveToken ==
    /\ mpc = "save_token"
    /\ \E ok \in BOOLEAN :
          /\ trace' = Append(trace, Ev("save_cached_token", ok, ""))
          /\ cache_file' = IF ok
                           THEN [token |-> token_info, expiry |-> NoExpiry,
                                 file |-> TRUE]
                           ELSE cache_file
    /\ session_for_use' = "fresh"
    /\ mpc' = "create_invoice"
    /\ UNCHANGED <<args, email, cached, cache_used, token_info, exit_code, api,
                   sched>>

(* ---------------- SkydoAPI: the invoice draft ---------------- *)
\* str.lower() on the names that occur
Lower(str) ==
    CASE str = "Acme Corp"   -> "acme corp"
      [] str = "ACME CORP"   -> "acme corp"
      [] str = "Globex"      -> "globex"
      [] str = "Engineering" -> "engineering"
      [] str = "ENGINEERING" -> "engineering"
      [] str = "Design"      -> "design"
      [] OTHER               -> str

\* variant: names compared as they are
SameName_Exact(a, b) == a = b

\* client_name.lower() == client.get("name", "").lower()
SameName(a, b) == Lower(a) = Lower(b)

\* index of the first entry of the list with that name, 0 when there is none
FirstMatch(list, nm) ==
    LET hits == {i \in 1 .. Len(list) : SameName(nm, list[i].name)}
    IN  IF hits = {} THEN 0 ELSE CHOOSE i \in hits : \A j \in hits : i <= j

\* what get-invoice-details can answer
ClientLists == {<<>>,
                <<[name |-> "Globex"]>>,
                <<[name |-> "Globex"], [name |-> "ACME CORP"]>>}

ItemDesign == [name |-> "Design", rate |-> 0, currency |-> "EUR"]
ItemEngUSD == [name |-> "ENGINEERING", rate |-> 50, currency |-> "USD"]
ItemEngEUR == [name |-> "Engineering", rate |-> 1, currency |-> "EUR"]
ItemLists == {<<>>, <<ItemDesign>>, <<ItemDesign, ItemEngUSD, ItemEngEUR>>,
              <<ItemEngEUR, ItemEngUSD>>}

Account(id, cur, ptype) == [id |-> id, currency |-> cur, paymentType |-> ptype]
BankLists == {<<>>,
              <<Account(3, "EUR", "regular")>>,
              <<Account(1, "USD", "other"), Account(2, "USD", "regular"),
                Account(4, "USD", "regular")>>,
              <<Account(3, "EUR", "other"), Account(1, "USD", "other"),
                Account(5, "USD", "other")>>}

InvoiceIds == {4711}

RECURSIVE Sum(_)
Sum(seq) == IF seq = <<>> THEN 0 ELSE Head(seq) + Sum(Tail(seq))

new_shape(w) ==
    [quantity          |-> ToString(w.quantity),
     igstApplicable    |-> TRUE,
     isMaxAmountBreach |-> FALSE,
     description       |-> w.description,
     sac               |-> "None",
     rate              |-> w.rate,
     igst              |-> "None",
     cgst              |-> "None",
     sgst              |-> "None",
     name              |-> w.name,
     unit              |-> "QUANTITY",
     total             |-> w.total]

\* variant: the hours are sent where the amounts belong
SubTotal_Hours(weekly) == Sum([i \in 1 .. Len(weekly) |-> weekly[i].quantity])

\* sub_total = sum(w["total"] for w in weekly)
SubTotal(weekly) == Sum([i \in 1 .. Len(weekly) |-> weekly[i].total])

items_payload(weekly, item, id) ==
    [invoiceId |-> id,
     invoiceFinancial |->
        [currency           |-> item.currency,
         subTotal           |-> SubTotal(weekly),
         discountPercentage |-> 0,
         discountValue      |-> "None",
         total              |-> SubTotal(weekly),
         totalCgst          |-> 0,
         totalSgst          |-> 0,
         totalIgst          |-> 0,
         igstApplicable     |-> TRUE,
         itemTotal          |-> SubTotal(weekly)],
     invoiceItems |-> [i \in 1 .. Len(weekly) |-> new_shape(weekly[i])]]

\* candidates = accounts of the currency
Candidates(accounts, currency) ==
    LET Match(a) == a.currency = currency
    IN  SelectSeq(accounts, Match)

\* variant: the first account of the currency, whatever its payment type
ChosenAccount_First(accounts, currency) == Candidates(accounts, currency)[1]

\* chosen = (regular or candidates)[0]
ChosenAccount(accounts, currency) ==
    LET Regular(a) == a.paymentType = "regular"
        candidates == Candidates(accounts, currency)
        regular == SelectSeq(candidates, Regular)
    IN  IF regular # <<>> THEN regular[1] ELSE candidates[1]

ApiPeriods == {2024, 2025, MAXYEAR} \X (1 .. 13)

ApiInit ==
    /\ \E c \in BOOLEAN :
          cookie = c /\ session_for_use = IF c THEN "none" ELSE "fresh"
    /\ force_login = FALSE
    /\ skip_validate = FALSE
    /\ client_name = "Acme Corp"
    /\ item_name = "Engineering"
    /\ \E p \in ApiPeriods : year = p[1] /\ month = p[2]
    /\ cache_file = NoCache
    /\ email = ""
    /\ cached = NoCache
    /\ cache_used = FALSE
    /\ token_info = ""
    /\ mpc = "create_invoice"
    /\ exit_code = -1
    /\ trace = <<>>
    /\ SchedulerIdle
    /\ ApiIdle

catalog == <<clients, invoice_items, skydo_bank_accounts>>

\* variant: the error is logged and an empty answer returned
PostRaises_Swallow(ok) == FALSE

\* SkydoAPI._post: a failed request is logged and raised again
PostRaises(ok) == ~ok

\* what the trace keeps of a get-invoice-details answer
Answer(accounts) == IF accounts = <<>> THEN "no accounts" ELSE "accounts"

\* variant: the details are always fetched again
NeedsRefresh_Always(accounts) == TRUE

\* if not self.skydo_bank_accounts
NeedsRefresh(accounts) == accounts = <<>>

\* SkydoAPI.__init__ up to create_invoice()
CreateInvoice ==
    /\ mpc = "create_invoice"
    /\ \E ok \in BOOLEAN :
          /\ trace' = Append(trace, Ev("create_invoice", ok, ""))
          /\ IF ~PostRaises(ok)
             THEN /\ invoice_id' \in InvoiceIds
                  /\ mpc' = "get_details"
                  /\ exit_code' = exit_code
             ELSE /\ invoice_id' = invoice_id
                  /\ Exit(1)
    /\ UNCHANGED <<args, login, catalog, chosen_item, items_sent, bank_sent, sched>>

GetInvoiceDetails ==
    /\ mpc = "get_details"
    /\ \/ /\ clients' \in ClientLists
          /\ invoice_items' \in ItemLists
          /\ skydo_bank_accounts' \in BankLists
          /\ trace' = Append(trace, Ev("get_invoice_details", TRUE,
                                         Answer(skydo_bank_accounts')))
          /\ mpc' = "choose_client"
          /\ exit_code' = exit_code
       \/ /\ trace' = Append(trace, Ev("get_invoice_details", FALSE, ""))
          /\ UNCHANGED catalog
          /\ Exit(1)
    /\ UNCHANGED <<args, login, invoice_id, chosen_item, items_sent, bank_sent,
                   sched>>

\* the client lookup of __init__ and choose_client()
ChooseClient ==
    /\ mpc = "choose_client"
    /\ IF FirstMatch(clients, client_name) = 0
       THEN /\ Exit(2)
            /\ trace' = trace
       ELSE \E ok \in BOOLEAN :
               /\ trace' = Append(trace, Ev("update_bill_to", ok, ""))
               /\ IF ~PostRaises(ok)
                  THEN mpc' = "choose_item" /\ exit_code' = exit_code
                  ELSE Exit(1)
    /\ UNCHANGED <<args, login, api, sched>>

\* the item lookup of __init__ and choose_items() down to its call of
\* get_invoice_items(self.year, self.month, item["rate"], item["name"])
ChooseItemsCall ==
    /\ mpc = "choose_item"
    /\ LET k == FirstMatch(invoice_items, item_name)
       IN  IF k = 0
           THEN /\ Exit(2)
                /\ UNCHANGED <<chosen_item, rate_per_hour, name, pc, result, err>>
           ELSE /\ chosen_item' = invoice_items[k]
                /\ rate_per_hour' = invoice_items[k].rate
                /\ name' = invoice_items[k].name
                /\ pc' = "first_weekday"
                /\ result' = <<>>
                /\ err' = "none"
                /\ mpc' = "choose_items"
                /\ exit_code' = exit_code
    /\ UNCHANGED <<args, login, trace, invoice_id, catalog, items_sent, bank_sent,
                   year, month, current_date, week_end_date, days_in_week,
                   schedule_list, week_spans, counters, calls>>

\* choose_items() from the return of get_invoice_items to its end
ChooseItemsReturn ==
    /\ mpc = "choose_items"
    /\ pc \in {"done", "raised"}
    /\ IF pc = "raised"
       THEN /\ Exit(1)
            /\ UNCHANGED <<trace, items_sent>>
       ELSE \E ok \in BOOLEAN :
               /\ trace' = Append(trace, Ev("update_items", ok, ""))
               /\ items_sent' = Append(items_sent,
                                       items_payload(result, chosen_item, invoice_id))
               /\ IF ~PostRaises(ok)
                  THEN mpc' = "choose_bank" /\ exit_code' = exit_code
                  ELSE Exit(1)
    /\ UNCHANGED <<args, login, invoice_id, catalog, chosen_item, bank_sent, sched>>

\* choose_bank_account() from the candidates on, after the requests in tr
SelectAndPost(tr, accounts) ==
    IF Candidates(accounts, chosen_item.currency) = <<>>
    THEN /\ trace' = tr
         /\ bank_sent' = bank_sent
         /\ Exit(2)
    ELSE \E ok \in BOOLEAN :
            /\ trace' = Append(tr, Ev("update_bankaccount", ok, ""))
            /\ bank_sent' = Append(bank_sent,
                                   ChosenAccount(accounts, chosen_item.currency).id)
            /\ IF ~PostRaises(ok)
               THEN mpc' = "other_details" /\ exit_code' = exit_code
               ELSE Exit(1)

\* choose_bank_account(): with no account known the details are fetched once
\* more, and a failure of that request is logged and passed over
ChooseBankAccount ==
    /\ mpc = "choose_bank"
    /\ IF ~NeedsRefresh(skydo_bank_accounts)
       THEN /\ SelectAndPost(trace, skydo_bank_accounts)
            /\ UNCHANGED catalog
       ELSE \/ /\ clients' \in ClientLists
               /\ invoice_items' \in ItemLists
               /\ skydo_bank_accounts' \in BankLists
               /\ SelectAndPost(Append(trace, Ev("get_invoice_details", TRUE,
                                                  Answer(skydo_bank_accounts'))),
                                skydo_bank_accounts')
            \/ /\ UNCHANGED catalog
               /\ SelectAndPost(Append(trace, Ev("get_invoice_details", FALSE, "")),
                                skydo_bank_accounts)
    /\ UNCHANGED <<args, login, invoice_id, chosen_item, items_sent, sched>>

UpdateOtherDetails ==
    /\ mpc = "other_details"
    /\ \E ok \in BOOLEAN :
          /\ trace' = Append(trace, Ev("update_other_details", ok, ""))
          /\ Exit(IF ~PostRaises(ok) THEN 0 ELSE 1)
    /\ UNCHANGED <<args, login, api, sched>>

ApiNext ==
    \/ CreateInvoice \/ GetInvoiceDetails \/ ChooseClient \/ ChooseItemsCall
    \/ GetFirstWeekday \/ EnterWeek \/ WalkDay \/ EmitWeek \/ Return
    \/ ChooseItemsReturn \/ ChooseBankAccount \/ UpdateOtherDetails

\* one SkydoAPI(...) construction, as main() makes it
ApiSpec == ApiInit /\ [][ApiNext]_vars

MainNext ==
    \/ LoadCache \/ ValidateCached \/ LoginGate \/ RequestOtp \/ VerifyOtp
    \/ CompleteLogin \/ ValidateFresh \/ SaveToken
    \/ CreateInvoice \/ GetInvoiceDetails \/ ChooseClient \/ ChooseItemsCall
    \/ GetFirstWeekday \/ EnterWeek \/ WalkDay \/ EmitWeek \/ Return
    \/ ChooseItemsReturn \/ ChooseBankAccount \/ UpdateOtherDetails

\* one run of main()
MainSpec == MainInit /\ [][MainNext]_vars

(* ---------------- vocabulary of the properties ---------------- *)
\* the calendar days of the requested month, as ordinals
MonthDays == {ymd2ord(year, month, d) : d \in 1 .. days_in_month(year, month)}

IsMonFri(d) == weekday(d) \in {0, 1, 2, 3, 4}

MonthWeekdays == {d \in MonthDays : IsMonFri(d)}

\* the days of the i-th block's inclusive range [start, end]
SpanDays(i) == week_spans[i][1] .. week_spans[i][2]

BlockIds == 1 .. Len(week_spans)

Returned == pc = "done"

\* the returned blocks are the recorded ranges, one for one
SpansMatchResult ==
    /\ Len(result) = Len(week_spans)
    /\ \A i \in BlockIds :
          result[i].description =
              create_week_description(week_spans[i][1], week_spans[i][2])

\* C1: on return, the block ranges together contain exactly the Monday-Friday
\* days of the month: each weekday of the month lies in exactly one block,
\* and no Saturday, Sunday or day of another month lies in any block.
C1_WeekdaysCoveredOnce ==
    Returned =>
        /\ SpansMatchResult
        /\ UNION {SpanDays(i) : i \in BlockIds} = MonthWeekdays
        /\ \A d \in MonthWeekdays :
              Cardinality({i \in BlockIds : d \in SpanDays(i)}) = 1
        /\ \A i, j \in BlockIds : i # j => SpanDays(i) \cap SpanDays(j) = {}
        /\ \A i \in BlockIds : \A d \in SpanDays(i) : weekday(d) \notin {5, 6}

\* a month that begins on a Saturday and has been scheduled to the end
C1_Witness ==
    /\ Returned
    /\ weekday(ymd2ord(year, month, 1)) = 5
    /\ Len(result) = 5

\* C2: the blocks are ordered by start date strictly ascending and do not
\* overlap: each block starts after the previous block's end.
C2_OrderedDisjoint ==
    \A i \in BlockIds : i > 1 =>
        /\ week_spans[i][1] > week_spans[i - 1][1]
        /\ week_spans[i][1] > week_spans[i - 1][2]

C2_Witness ==
    /\ Returned
    /\ Len(result) = 5
    /\ week_spans[5][1] = week_spans[4][2] + 3

\* C3: for every block and every rate, quantity is 8 times the number of
\* weekdays of the block and total is quantity times rate_per_hour; with
\* rate 0 every total is 0; an error never depends on the rate.
C3_QuantityAndTotal ==
    /\ Len(schedule_list) = Len(week_spans)
    /\ \A i \in BlockIds :
          /\ schedule_list[i].quantity =
                 8 * Cardinality({d \in SpanDays(i) : IsMonFri(d)})
          /\ schedule_list[i].rate = rate_per_hour
          /\ schedule_list[i].total = schedule_list[i].quantity * rate_per_hour
          /\ rate_per_hour = 0 => schedule_list[i].total = 0
    /\ Returned => result = schedule_list
    /\ pc = "raised" =>
          ~ValidDate(year, month, 1) \/ (year = MAXYEAR /\ month = 12)

\* a zero rate with a two-day block: quantity 16, total 0
C3_Witness ==
    /\ Returned
    /\ rate_per_hour = 0
    /\ \E i \in 1 .. Len(result) : result[i].quantity = 16 /\ result[i].total = 0

\* C4: on return, the first block starts on the first Monday-Friday day of
\* the month: the 1st, or the 3rd when the 1st is a Saturday, or the 2nd when
\* the 1st is a Sunday (March 2025 starts at the 3rd, June 2025 at the 2nd).
C4_FirstBlockStart ==
    Returned =>
        LET first == ymd2ord(year, month, 1)
            s == week_spans[1][1]
        IN  /\ Len(week_spans) >= 1
            /\ s \in MonthWeekdays
            /\ \A d \in MonthWeekdays : s <= d
            /\ IsMonFri(first) => s = first
            /\ weekday(first) = 5 => s = first + 2 /\ DayOf(s) = 3
            /\ weekday(first) = 6 => s = first + 1 /\ DayOf(s) = 2
            /\ (year = 2025 /\ month = 3) =>
                  result[1].description = "03-03-2025 - 03-07-2025"
            /\ (year = 2025 /\ month = 6) =>
                  result[1].description = "06-02-2025 - 06-06-2025"

C4_Witness ==
    /\ Returned
    /\ year = 2025
    /\ month = 3
    /\ DayOf(week_spans[1][1]) = 3

\* C5: on return, the last block ends on the last Monday-Friday day on or
\* before the final day of the month.
C5_LastBlockEnd ==
    Returned =>
        LET e == week_spans[Len(week_spans)][2]
        IN  /\ Len(week_spans) >= 1
            /\ e \in MonthWeekdays
            /\ \A d \in MonthWeekdays : d <= e

\* a month whose final day is a Sunday: the last block ends two days earlier
C5_Witness ==
    /\ Returned
    /\ weekday(ymd2ord(year, month, days_in_month(year, month))) = 6
    /\ DayOf(week_spans[Len(week_spans)][2]) = days_in_month(year, month) - 2

\* C6: every block starts and ends on a Monday-Friday day of the requested
\* month, with start <= end and 1 to 5 weekdays counted (quantity in
\* {8,16,24,32,40}); no block reaches into the following month.
C6_BlockWellFormed ==
    \A i \in BlockIds :
        LET s == week_spans[i][1]
            e == week_spans[i][2]
        IN  /\ IsMonFri(s) /\ IsMonFri(e)
            /\ YearOf(s) = year /\ MonthOf(s) = month
            /\ YearOf(e) = year /\ MonthOf(e) = month
            /\ s <= e
            /\ e - s + 1 \in 1 .. 5
            /\ schedule_list[i].quantity \in {8, 16, 24, 32, 40}
            /\ schedule_list[i].quantity = 8 * (e - s + 1)

\* a one-day block
C6_Witness ==
    /\ Returned
    /\ \E i \in BlockIds :
          week_spans[i][1] = week_spans[i][2] /\ result[i].quantity = 8

\* C7: on return, every block that is neither the first nor the last counts
\* exactly 5 weekdays (quantity 40).
C7_InteriorBlocksFull ==
    Returned =>
        \A i \in BlockIds : (1 < i /\ i < Len(week_spans)) =>
            /\ result[i].quantity = 40
            /\ week_spans[i][2] - week_spans[i][1] + 1 = 5

\* both edge blocks partial, three full blocks between them
C7_Witness ==
    /\ Returned
    /\ Len(result) = 5
    /\ result[1].quantity < 40
    /\ result[5].quantity < 40
    /\ result[3].quantity = 40

Brief(b) == <<b.description, b.quantity, b.total>>

\* C8: get_invoice_items(2024, 4, 50, "Engineering") returns exactly five
\* blocks in order: April 1-5, 8-12, 15-19, 22-26 with quantity 40 and total
\* 2000 each, then April 29-30 with quantity 16 and total 800.
C8_April2024 ==
    (Returned /\ year = 2024 /\ month = 4 /\ rate_per_hour = 50
        /\ name = "Engineering") =>
        /\ Len(result) = 5
        /\ Brief(result[1]) = <<"04-01-2024 - 04-05-2024", 40, 2000>>
        /\ Brief(result[2]) = <<"04-08-2024 - 04-12-2024", 40, 2000>>
        /\ Brief(result[3]) = <<"04-15-2024 - 04-19-2024", 40, 2000>>
        /\ Brief(result[4]) = <<"04-22-2024 - 04-26-2024", 40, 2000>>
        /\ Brief(result[5]) = <<"04-29-2024 - 04-30-2024", 16, 800>>
        /\ \A i \in 1 .. 5 : result[i].name = "Engineering" /\ result[i].rate = 50

C8_Witness ==
    /\ Returned
    /\ year = 2024 /\ month = 4 /\ rate_per_hour = 50 /\ name = "Engineering"
    /\ Len(result) = 5

\* C9: an error is raised only before any block has been produced; no error
\* is raised after one or more blocks were appended to the schedule.
C9_NoErrorAfterBlocks ==
    pc = "raised" => Len(schedule_list) = 0

\* C10: for every year 1000..9999 and every month 1..12 the call returns
\* without raising.
C10_TotalOnValidDates ==
    (year \in 1000 .. 9999 /\ month \in 1 .. 12) => pc # "raised"

Finished == pc \in {"done", "raised"}

\* C11: every call terminates; the outer loop runs at most 5 times (at most
\* 5 blocks), the inner day walk takes at most 31 steps in total, and the
\* loop is left by a return only when the cursor's month is not the target.
C11_TerminatesBounded ==
    /\ [](/\ outer_iters <= 5
          /\ Len(schedule_list) <= 5
          /\ inner_steps <= 31
          /\ (pc = "done" => MonthOf(current_date) # month))
    /\ <>Finished

\* a finished call that took five outer iterations and 23 day steps
C11_Witness ==
    /\ pc = "done"
    /\ outer_iters = 5
    /\ inner_steps = 23
    /\ MonthOf(current_date) # month

\* C12: calls with identical (year, month, rate_per_hour, name) have
\* identical outcomes, whatever was called before or between them.
C12_Deterministic ==
    /\ \A i, j \in 1 .. Len(calls) :
          calls[i].args = calls[j].args => calls[i].outcome = calls[j].outcome
    /\ Finished =>
          \A i \in 1 .. Len(calls) :
              calls[i].args = inputs => calls[i].outcome = Outcome

\* the first call's inputs are used again after a call with other inputs
C12_Witness ==
    /\ pc = "done"
    /\ Len(calls) = 2
    /\ calls[1].args = inputs
    /\ calls[2].args # inputs
    /\ Len(calls[2].outcome[3]) = 5
    /\ Len(result) = 5

\* C15: once a block has been emitted and the cursor advanced, the cursor is
\* a Monday of the target month or a date outside the target month; every
\* outer-loop iteration starts with the cursor on a Monday-Friday day of the
\* target month.
C15_CursorOnWeekday ==
    /\ (pc = "outer" /\ Len(schedule_list) >= 1) =>
          \/ weekday(current_date) = 0 /\ MonthOf(current_date) = month
                /\ YearOf(current_date) = year
          \/ MonthOf(current_date) # month
    /\ pc = "inner" =>
          /\ weekday(current_date) \in {0, 1, 2, 3, 4}
          /\ weekday(current_date) \notin {5, 6}
          /\ MonthOf(current_date) = month
          /\ YearOf(current_date) = year

\* after the last block, which ended on a Wednesday, the cursor is a
\* Saturday of the next month
C15_Witness ==
    /\ pc = "outer"
    /\ Len(schedule_list) = 5
    /\ weekday(week_end_date) = 2
    /\ weekday(current_date) = 5
    /\ MonthOf(current_date) # month

\* the first Monday after a date
NextMonday(d) == d + (7 - weekday(d))

RECURSIVE WalkLen(_, _)
\* the number of consecutive days from d on that the day walk counts
WalkLen(d, m) == IF InnerCond(d, m) THEN 1 + WalkLen(d + 1, m) ELSE 0

RECURSIVE MondaySchedule(_, _, _, _)
\* the scheduler with 'jump to the first Monday after the end date' in place
\* of the cursor advance
MondaySchedule(cur, m, r, nm) ==
    IF ~OuterCond(cur, m)
    THEN <<>>
    ELSE LET n == WalkLen(cur, m)
             end_date == cur + n - 1
         IN  <<schedule_dict(cur, end_date, n, r, nm)>>
                 \o MondaySchedule(NextMonday(end_date), m, r, nm)

\* C16: with the Monday jump in place of the '+3 days' advance the scheduler
\* returns exactly the same block sequence.
C16_MondayJumpSame ==
    Returned =>
        result = MondaySchedule(get_first_weekday(year, month), month,
                                rate_per_hour, name)

\* a month whose last block ends before a Friday: there the two advances
\* give different cursors
C16_Witness ==
    /\ Returned
    /\ Len(result) = 5
    /\ NextMonday(week_end_date) # current_date
    /\ result = MondaySchedule(get_first_weekday(year, month), month,
                               rate_per_hour, name)

(* ---------------- vocabulary of the client's properties ---------------- *)
ApiCalls == {"create_invoice", "get_invoice_details", "update_bill_to",
             "update_items", "update_bankaccount", "update_other_details"}

IsApiCall(e) == e.call \in ApiCalls

\* the requests of the SkydoAPI construction, in the order issued
ApiTrace == SelectSeq(trace, IsApiCall)

CallsOf(seq) == [i \in 1 .. Len(seq) |-> seq[i].call]

IsPrefix(a, b) == Len(a) <= Len(b) /\ \A i \in 1 .. Len(a) : a[i] = b[i]

\* every request but the last one made has succeeded
AllButLastOk(seq) == \A i \in 1 .. Len(seq) : i < Len(seq) => seq[i].ok

ApiOrder == <<"create_invoice", "get_invoice_details", "update_bill_to",
              "update_items", "update_bankaccount", "update_other_details">>

ApiOrderRefetch == <<"create_invoice", "get_invoice_details", "update_bill_to",
                     "update_items", "get_invoice_details",
                     "update_bankaccount", "update_other_details">>

\* C13 as stated: the requests are issued in the one fixed order create,
\* fetch details, attach client, attach items, attach bank account, other
\* details, each only after all earlier ones succeeded, with no extra request.
C13_FixedOrder ==
    /\ IsPrefix(CallsOf(ApiTrace), ApiOrder)
    /\ AllButLastOk(ApiTrace)

\* C13 amended: the fixed order, each request only after all earlier ones
\* succeeded, except that exactly when the details fetched held no bank
\* account one more fetch of the details is issued between attach items and
\* attach bank account.
C13_FixedOrderOrRefetch ==
    /\ AllButLastOk(ApiTrace)
    /\ \/ IsPrefix(CallsOf(ApiTrace), ApiOrder)
       \/ IsPrefix(CallsOf(ApiTrace), ApiOrderRefetch)
    /\ Len(ApiTrace) >= 5 =>
          (ApiTrace[5].call = "get_invoice_details"
              <=> ApiTrace[2].resp = "no accounts")

\* a complete run with the second fetch in it
C13_Witness ==
    /\ CallsOf(ApiTrace) = ApiOrderRefetch
    /\ \A i \in 1 .. Len(ApiTrace) : ApiTrace[i].ok
    /\ exit_code = 0

\* the blocks' totals added up, from the last block down
RECURSIVE TotalUpTo(_)
TotalUpTo(n) == IF n = 0 THEN 0 ELSE result[n].total + TotalUpTo(n - 1)

\* C17: choose_items sends one invoiceItems entry per scheduler block, in the
\* scheduler's order, with the block's description, rate, name and total, the
\* quantity as a string and unit "QUANTITY"; subTotal, total and itemTotal are
\* the sum of the blocks' totals.
C17_ItemsPayload ==
    \A k \in 1 .. Len(items_sent) :
        LET p == items_sent[k]
        IN  /\ Len(p.invoiceItems) = Len(result)
            /\ Len(result) = Len(week_spans)
            /\ \A i \in 1 .. Len(result) :
                  /\ p.invoiceItems[i].description = result[i].description
                  /\ p.invoiceItems[i].rate = result[i].rate
                  /\ p.invoiceItems[i].name = result[i].name
                  /\ p.invoiceItems[i].total = result[i].total
                  /\ p.invoiceItems[i].unit = "QUANTITY"
                  /\ p.invoiceItems[i].quantity \in {"8", "16", "24", "32", "40"}
                  /\ p.invoiceItems[i].quantity = ToString(result[i].quantity)
                  /\ result[i].quantity = 40 <=> p.invoiceItems[i].quantity = "40"
                  /\ result[i].quantity = 8 <=> p.invoiceItems[i].quantity = "8"
            /\ p.invoiceFinancial.subTotal = TotalUpTo(Len(result))
            /\ p.invoiceFinancial.total = TotalUpTo(Len(result))
            /\ p.invoiceFinancial.itemTotal = TotalUpTo(Len(result))

\* April 2024 at 50 an hour: five entries, 8800 in all
C17_Witness ==
    /\ Len(items_sent) = 1
    /\ year = 2024 /\ month = 4
    /\ chosen_item = ItemEngUSD
    /\ Len(items_sent[1].invoiceItems) = 5
    /\ items_sent[1].invoiceItems[5].quantity = "16"
    /\ items_sent[1].invoiceItems[5].name = "ENGINEERING"
    /\ items_sent[1].invoiceFinancial.subTotal = 8800

\* a name of the list equals the wanted one up to case
MatchesCI(list, nm) == \E i \in 1 .. Len(list) : Lower(list[i].name) = Lower(nm)

Issued(c) == \E i \in 1 .. Len(trace) : trace[i].call = c

Succeeded(c) == \E i \in 1 .. Len(trace) : trace[i].call = c /\ trace[i].ok

\* the run has ended and its one fetch of the details succeeded
EndedAfterOneFetch ==
    /\ mpc = "exit"
    /\ Succeeded("get_invoice_details")
    /\ Cardinality({i \in 1 .. Len(trace) :
                       trace[i].call = "get_invoice_details"}) = 1

NoClientCase == EndedAfterOneFetch /\ ~MatchesCI(clients, client_name)

NoItemCase ==
    /\ EndedAfterOneFetch
    /\ MatchesCI(clients, client_name)
    /\ ~MatchesCI(invoice_items, item_name)

\* C20 as stated: no matching client: exit status 2 and no update-invoice
\* request; matching client but no matching item: exit status 2 after the
\* attach-client request and no attach-items, bank-account or other-details
\* request.
C20_NotFoundExits ==
    /\ NoClientCase =>
          /\ exit_code = 2
          /\ ~Issued("update_bill_to") /\ ~Issued("update_items")
          /\ ~Issued("update_bankaccount") /\ ~Issued("update_other_details")
    /\ NoItemCase =>
          /\ exit_code = 2
          /\ Issued("update_bill_to")
          /\ ~Issued("update_items")
          /\ ~Issued("update_bankaccount") /\ ~Issued("update_other_details")

\* C20 amended: as stated, but in the no-item case the status is 2 when the
\* attach-client request succeeded and 1 when that request failed.
C20_NotFoundExitsAfterClient ==
    /\ NoClientCase =>
          /\ exit_code = 2
          /\ ~Issued("update_bill_to") /\ ~Issued("update_items")
          /\ ~Issued("update_bankaccount") /\ ~Issued("update_other_details")
    /\ NoItemCase =>
          /\ exit_code = IF Succeeded("update_bill_to") THEN 2 ELSE 1
          /\ Issued("update_bill_to")
          /\ ~Issued("update_items")
          /\ ~Issued("update_bankaccount") /\ ~Issued("update_other_details")

\* the client is found under another spelling, the item is not found
C20_Witness ==
    /\ NoItemCase
    /\ clients = <<[name |-> "Globex"], [name |-> "ACME CORP"]>>
    /\ invoice_items = <<ItemDesign>>
    /\ Succeeded("update_bill_to")
    /\ exit_code = 2

IsHttp(e) == e.call \in HttpCalls

\* the HTTP requests of the run, in the order issued
HttpTrace == SelectSeq(trace, IsHttp)

Aborted == mpc = "exit" /\ exit_code \in {1, 2}

PastLogin ==
    mpc \notin {"main", "validate_cached", "login_gate", "request_otp"}

ValidatorSaidValid ==
    \E i \in 1 .. Len(trace) :
        trace[i].call = "validate_session" /\ trace[i].resp = "valid"

NoLoginStep ==
    /\ ~Issued("request_otp") /\ ~Issued("verify_otp_login")
    /\ ~Issued("complete_login")

\* C18 as stated: the cached token is the session only with no cookie, no
\* --force-login, an expiry that is absent or more than 60 s ahead, and
\* (unless --skip-validate) a validator answer of valid; in every other
\* no-cookie case the OTP login runs; with a cookie the cache is not read and
\* no OTP login made.
C18_CachedTokenUse ==
    /\ session_for_use = "cached" =>
          /\ ~cookie /\ ~force_login
          /\ cached.token # ""
          /\ \/ cached.expiry.kind = "absent"
             \/ cached.expiry.kind = "time" /\ cached.expiry.at > 60
          /\ skip_validate \/ ValidatorSaidValid
    /\ (~cookie /\ PastLogin /\ session_for_use # "cached") =>
          Issued("request_otp")
    /\ cookie =>
          /\ ~Issued("load_cached_token")
          /\ NoLoginStep
          /\ session_for_use = "none"

\* C18 amended: as stated, but an expiry that cannot be parsed counts like
\* an absent one, and in the other no-cookie cases the login branch is
\* entered, where an empty email ends the run with status 2 before any OTP
\* request.
C18_CachedTokenUseOrLogin ==
    /\ session_for_use = "cached" =>
          /\ ~cookie /\ ~force_login
          /\ cached.token # ""
          /\ \/ cached.expiry.kind \in {"absent", "unparseable"}
             \/ cached.expiry.kind = "time" /\ cached.expiry.at > 60
          /\ skip_validate \/ ValidatorSaidValid
    /\ (~cookie /\ PastLogin /\ session_for_use # "cached") =>
          \/ Issued("request_otp") /\ email # ""
          \/ email = "" /\ mpc = "exit" /\ exit_code = 2 /\ NoLoginStep
    /\ cookie =>
          /\ ~Issued("load_cached_token")
          /\ NoLoginStep
          /\ session_for_use = "none"

\* a validated cached token with an unparseable expiry carries the invoice
\* requests
C18_Witness ==
    /\ session_for_use = "cached"
    /\ cached.expiry = BadExpiry
    /\ ValidatorSaidValid
    /\ Issued("create_invoice")
    /\ NoLoginStep

LoginCalls == {"request_otp", "verify_otp_login", "complete_login",
               "validate_session", "save_cached_token"}

\* the steps of the fresh login, from request_otp on
LoginTrace ==
    LET IsLogin(e) == e.call \in LoginCalls
        first == {i \in 1 .. Len(trace) : trace[i].call = "request_otp"}
    IN  IF first = {} THEN <<>>
        ELSE SelectSeq(SubSeq(trace, CHOOSE i \in first : TRUE, Len(trace)),
                       IsLogin)

LoginOrder ==
    IF skip_validate
    THEN <<"request_otp", "verify_otp_login", "complete_login",
           "save_cached_token">>
    ELSE <<"request_otp", "verify_otp_login", "complete_login",
           "validate_session", "save_cached_token">>

TokenReturned ==
    \E i \in 1 .. Len(trace) :
        trace[i].call = "verify_otp_login" /\ trace[i].ok /\ trace[i].resp = "ok"

\* C19: a fresh login runs request_otp, verify_otp_login, complete_login,
\* validate_session (unless skipped), save to cache, in this order; the cache
\* is written and the invoice started only after verify_otp_login returned a
\* token and complete_login succeeded; a missing correlation id or token ends
\* the run with status 2 before any later step.
C19_FreshLoginOrder ==
    /\ IsPrefix(CallsOf(LoginTrace), LoginOrder)
    /\ (Issued("save_cached_token") \/ cache_file.token = "tok-new"
          \/ session_for_use = "fresh"
          \/ (Issued("request_otp") /\ Issued("create_invoice"))) =>
          /\ TokenReturned
          /\ token_info = "tok-new"
          /\ Succeeded("complete_login")
    /\ (Issued("request_otp") /\ Issued("create_invoice")) =>
          Issued("save_cached_token")
    /\ \A i \in 1 .. Len(trace) :
          (trace[i].call \in {"request_otp", "verify_otp_login"}
              /\ trace[i].resp \in {"nodata", "notoken"})
          => (i = Len(trace) /\ mpc = "exit" /\ exit_code = 2)

\* a login whose validation request failed, saved to the cache and followed
\* by the first invoice request
C19_Witness ==
    /\ ~skip_validate
    /\ CallsOf(LoginTrace) = LoginOrder
    /\ \E i \in 1 .. Len(LoginTrace) :
          LoginTrace[i].call = "validate_session" /\ ~LoginTrace[i].ok
    /\ cache_file.token = "tok-new"
    /\ Issued("create_invoice")

\* choose_bank_account has been called and has finished
BankStageDone == Succeeded("update_items") /\ mpc # "choose_bank"

\* positions of the known accounts in the chosen item's currency
MatchingAccounts ==
    {i \in 1 .. Len(skydo_bank_accounts) :
        skydo_bank_accounts[i].currency = chosen_item.currency}

RegularAccounts ==
    {i \in MatchingAccounts : skydo_bank_accounts[i].paymentType = "regular"}

Least(S) == CHOOSE i \in S : \A j \in S : i <= j

PreferredAccount ==
    IF RegularAccounts # {} THEN Least(RegularAccounts)
    ELSE Least(MatchingAccounts)

\* C21: choose_bank_account sends the first account in the chosen item's
\* currency that has paymentType regular if there is one, and otherwise the
\* first account in that currency; with no account in that currency the run
\* exits with status 2 and the bank-account update is never issued.
C21_BankAccountChoice ==
    /\ Len(bank_sent) <= 1
    /\ Issued("update_bankaccount") => BankStageDone
    /\ BankStageDone =>
          IF MatchingAccounts = {}
          THEN /\ mpc = "exit" /\ exit_code = 2
               /\ ~Issued("update_bankaccount")
               /\ bank_sent = <<>>
          ELSE /\ Issued("update_bankaccount")
               /\ bank_sent = <<skydo_bank_accounts[PreferredAccount].id>>

\* a regular account was sent although another account in the currency
\* comes first in the list
C21_Witness ==
    /\ BankStageDone
    /\ RegularAccounts # {}
    /\ Least(RegularAccounts) # Least(MatchingAccounts)
    /\ bank_sent = <<skydo_bank_accounts[Least(RegularAccounts)].id>>
    /\ Succeeded("update_bankaccount")

====
